---- MODULE Spec2Model ----
(***************************************************************************)
(* Model of src/src/metrics.py: add_summary builds a confusion matrix from *)
(* a batch of true labels and predicted classes, derives the per-class     *)
(* counts tp/fp/fn/tn and emits micro- and macro-averaged accuracy,        *)
(* precision, recall and F-measure as summary scalars.                     *)
(*                                                                         *)
(* Tensor values are modelled by the exact rational numbers the float32    *)
(* tensors stand for.  A rational is a record [n, d] of two integers; a    *)
(* zero denominator is kept as it is, so that 0/0 behaves as NaN and x/0   *)
(* as infinity, and both propagate through +, * and / as in IEEE           *)
(* arithmetic.  Integers are written as polynomials in EpsDen = 1/eps      *)
(* (sequences of coefficients, lowest first), which keeps every            *)
(* coefficient small although eps = 1e-7 enters every denominator.         *)
(***************************************************************************)
EXTENDS Integers, Sequences, FiniteSets, TLC

MaxClasses == 3
MaxLen == 4

\* eps = 1e-7 = 1 / EpsDen  (metrics.py line 60)
EpsDen == 10000000

Max(a, b) == IF a >= b THEN a ELSE b

(***************************************************************************)
(* Integers as polynomials in EpsDen.                                      *)
(***************************************************************************)
BAdd(a, b) ==
    [k \in 1..Max(Len(a), Len(b)) |->
        (IF k <= Len(a) THEN a[k] ELSE 0) + (IF k <= Len(b) THEN b[k] ELSE 0)]

BNeg(a) == [k \in 1..Len(a) |-> 0 - a[k]]

RECURSIVE Conv(_, _, _, _)
Conv(a, b, k, i) ==
    IF i > Len(a) \/ i > k THEN 0
    ELSE a[i] * b[k + 1 - i] + Conv(a, b, k, i + 1)

BMul(a, b) ==
    IF Len(a) = 0 \/ Len(b) = 0 THEN <<>>
    ELSE IF Len(b) = 1 THEN [k \in 1..Len(a) |-> a[k] * b[1]]
    ELSE IF Len(a) = 1 THEN [k \in 1..Len(b) |-> a[1] * b[k]]
    ELSE [k \in 1..(Len(a) + Len(b) - 1) |-> Conv(a, b, k, Max(1, k + 1 - Len(b)))]

\* the sign (-1, 0, 1) of the integer a stands for: carries are propagated
\* upwards, the last carry decides, then the lower digits
RECURSIVE SignFrom(_, _, _, _)
SignFrom(a, i, carry, low) ==
    IF i > Len(a)
    THEN IF carry > 0 THEN 1 ELSE IF carry < 0 THEN 0 - 1 ELSE low
    ELSE LET v == a[i] + carry
         IN  SignFrom(a, i + 1, v \div EpsDen, IF v % EpsDen # 0 THEN 1 ELSE low)

Sign(a) == SignFrom(a, 1, 0, 0)

(***************************************************************************)
(* Tensor scalars: rationals with IEEE-like 0/0 and x/0.                   *)
(***************************************************************************)
RInt(k) == [n |-> <<k>>, d |-> <<1>>]

eps == [n |-> <<1>>, d |-> <<0, 1>>]

RAdd(x, y) ==
    IF x.d = y.d THEN [n |-> BAdd(x.n, y.n), d |-> x.d]
    ELSE [n |-> BAdd(BMul(x.n, y.d), BMul(y.n, x.d)), d |-> BMul(x.d, y.d)]

RMul(x, y) == [n |-> BMul(x.n, y.n), d |-> BMul(x.d, y.d)]

RDiv(x, y) == [n |-> BMul(x.n, y.d), d |-> BMul(x.d, y.n)]

\* a number, as opposed to NaN or infinity
IsNum(x) == Sign(x.d) # 0

\* the sign of x - y, for numbers x and y
RCmp(x, y) ==
    Sign(BAdd(BMul(x.n, y.d), BNeg(BMul(y.n, x.d)))) * Sign(x.d) * Sign(y.d)

REq(x, y) == IsNum(x) /\ IsNum(y) /\ RCmp(x, y) = 0
RLeq(x, y) == IsNum(x) /\ IsNum(y) /\ RCmp(x, y) <= 0

(***************************************************************************)
(* add_summary, lines 54-59.                                               *)
(***************************************************************************)
Classes(n) == 0..(n - 1)

\* tf.confusion_matrix(labels, classes, num_classes): rows are the true
\* labels, columns the predictions
confusion_matrix(l, c, n) ==
    [i \in Classes(n) |-> [j \in Classes(n) |->
        Cardinality({k \in 1..Len(l) : l[k] = i /\ c[k] = j})]]

RECURSIVE SumUpTo(_, _)
SumUpTo(v, i) == IF i < 0 THEN 0 ELSE v[i] + SumUpTo(v, i - 1)

\* tf.reduce_sum of a vector indexed by the classes
reduce_sum(v, n) == SumUpTo(v, n - 1)

\* tf.reduce_sum(cm, axis=1): the sum along each row
reduce_sum_axis1(m, n) == [i \in Classes(n) |-> reduce_sum(m[i], n)]

\* tf.reduce_sum(cm, axis=0): the sum along each column
reduce_sum_axis0(m, n) ==
    [j \in Classes(n) |-> reduce_sum([i \in Classes(n) |-> m[i][j]], n)]

ln_of(m, n) == reduce_sum(reduce_sum_axis1(m, n), n)

diag_part(m, n) == [i \in Classes(n) |-> m[i][i]]

fp_of(m, t, n) == [i \in Classes(n) |-> reduce_sum_axis1(m, n)[i] - t[i]]

\* fn taken as the whole column sum
fn_of_column_sum(m, t, n) == reduce_sum_axis0(m, n)

fn_of(m, t, n) == [i \in Classes(n) |-> reduce_sum_axis0(m, n)[i] - t[i]]

\* tn with the false negatives left in
tn_of_keeps_fn(total, t, p, f, n) == [i \in Classes(n) |-> total - t[i] - p[i]]

tn_of(total, t, p, f, n) == [i \in Classes(n) |-> total - t[i] - p[i] - f[i]]

(***************************************************************************)
(* micro_metrics, lines 64-78.                                             *)
(***************************************************************************)
\* accuracy counting the true positives alone
micro_accuracy_tp_only(tps, fps, tns, fns) == RDiv(RInt(tps), RInt(tps + fps + tns + fns))

micro_accuracy(tps, fps, tns, fns) == RDiv(RInt(tps + tns), RInt(tps + fps + tns + fns))

micro_precision(tps, fps) == RDiv(RInt(tps), RAdd(RInt(tps + fps), eps))

micro_recall(tps, fns) == RDiv(RInt(tps), RAdd(RInt(tps + fns), eps))

f_measure_of(p, r) == RDiv(RMul(RMul(RInt(2), p), r), RAdd(RAdd(p, r), eps))

\* fp_sum and fn_sum summed from tn
micro_metrics_sums_tn(t, p, tneg, f, n) ==
    LET tp_sum == reduce_sum(t, n)
        fp_sum == reduce_sum(tneg, n)
        tn_sum == reduce_sum(tneg, n)
        fn_sum == reduce_sum(tneg, n)
        precision == micro_precision(tp_sum, fp_sum)
        recall == micro_recall(tp_sum, fn_sum)
    IN  [accuracy |-> micro_accuracy(tp_sum, reduce_sum(p, n), tn_sum, reduce_sum(f, n)),
         precision |-> precision,
         recall |-> recall,
         f_measure |-> f_measure_of(precision, recall)]

micro_metrics(t, p, tneg, f, n) ==
    LET tp_sum == reduce_sum(t, n)
        fp_sum == reduce_sum(p, n)
        tn_sum == reduce_sum(tneg, n)
        fn_sum == reduce_sum(f, n)
        precision == micro_precision(tp_sum, fp_sum)
        recall == micro_recall(tp_sum, fn_sum)
    IN  [accuracy |-> micro_accuracy(tp_sum, fp_sum, tn_sum, fn_sum),
         precision |-> precision,
         recall |-> recall,
         f_measure |-> f_measure_of(precision, recall)]

(***************************************************************************)
(* macro_metrics, lines 80-102.                                            *)
(***************************************************************************)
\* per-class accuracy counting the true positives alone
accuracies_tp_only(t, p, tneg, f, n) ==
    [i \in Classes(n) |-> RDiv(RInt(t[i]), RInt(t[i] + p[i] + tneg[i] + f[i]))]

accuracies(t, p, tneg, f, n) ==
    [i \in Classes(n) |-> RDiv(RInt(t[i] + tneg[i]), RInt(t[i] + p[i] + tneg[i] + f[i]))]

precisions(t, p, n) ==
    [i \in Classes(n) |-> RDiv(RInt(t[i]), RAdd(RInt(t[i] + p[i]), eps))]

recalls(t, f, n) ==
    [i \in Classes(n) |-> RDiv(RInt(t[i]), RAdd(RInt(t[i] + f[i]), eps))]

\* the F-measure without its factor 2
f_measures_not_doubled(ps, rs, n) ==
    [i \in Classes(n) |-> RDiv(RMul(ps[i], rs[i]), RAdd(RAdd(ps[i], rs[i]), eps))]

f_measures(ps, rs, n) ==
    [i \in Classes(n) |->
        RDiv(RMul(RMul(RInt(2), ps[i]), rs[i]), RAdd(RAdd(ps[i], rs[i]), eps))]

RECURSIVE RSumUpTo(_, _)
RSumUpTo(v, i) == IF i = 0 THEN v[0] ELSE RAdd(RSumUpTo(v, i - 1), v[i])

\* tf.reduce_mean of a vector of n >= 1 scalars
reduce_mean(v, n) == RDiv(RSumUpTo(v, n - 1), RInt(n))

\* the scalars of the families metric_0 .. metric_{n-1}
class_metrics(t, p, tneg, f, n) ==
    LET ps == precisions(t, p, n)
        rs == recalls(t, f, n)
        as == accuracies(t, p, tneg, f, n)
        fs == f_measures(ps, rs, n)
    IN  [i \in Classes(n) |->
            [accuracy |-> as[i], precision |-> ps[i],
             recall |-> rs[i], f_measure |-> fs[i]]]

\* the scalars of the family macro_metrics
macro_metrics(t, p, tneg, f, n) ==
    LET ps == precisions(t, p, n)
        rs == recalls(t, f, n)
    IN  [accuracy |-> reduce_mean(accuracies(t, p, tneg, f, n), n),
         precision |-> reduce_mean(ps, n),
         recall |-> reduce_mean(rs, n),
         f_measure |-> reduce_mean(f_measures(ps, rs, n), n)]

(***************************************************************************)
(* One call of add_summary.                                                *)
(***************************************************************************)
VARIABLES labels, classes, num_classes, pc, cm, ln, tp, fp, fn, tn,
          micro, metric, macro

vars == <<labels, classes, num_classes, pc, cm, ln, tp, fp, fn, tn,
          micro, metric, macro>>

\* the batches are enumerated up to the order of their examples (the
\* confusion matrix counts pairs): examples are listed by (label, class)
Ordered(l, c, n) ==
    \A k \in 1..(Len(l) - 1) : l[k] * n + c[k] <= l[k + 1] * n + c[k + 1]

Init ==
    /\ num_classes \in 1..MaxClasses
    /\ \E len \in 0..MaxLen :
          /\ labels \in [1..len -> Classes(num_classes)]
          /\ classes \in [1..len -> Classes(num_classes)]
    /\ Ordered(labels, classes, num_classes)
    /\ pc = "confusion_matrix"
    /\ cm = <<>>
    /\ ln = 0
    /\ tp = <<>>
    /\ fp = <<>>
    /\ fn = <<>>
    /\ tn = <<>>
    /\ micro = <<>>
    /\ metric = <<>>
    /\ macro = <<>>

\* line 54
ConfusionMatrix ==
    /\ pc = "confusion_matrix"
    /\ cm' = confusion_matrix(labels, classes, num_classes)
    /\ pc' = "counts"
    /\ UNCHANGED <<labels, classes, num_classes, ln, tp, fp, fn, tn, micro, metric, macro>>

\* lines 55-59
Counts ==
    /\ pc = "counts"
    /\ ln' = ln_of(cm, num_classes)
    /\ tp' = diag_part(cm, num_classes)
    /\ fp' = fp_of(cm, tp', num_classes)
    /\ fn' = fn_of(cm, tp', num_classes)
    /\ tn' = tn_of(ln', tp', fp', fn', num_classes)
    /\ pc' = "micro_metrics"
    /\ UNCHANGED <<labels, classes, num_classes, cm, micro, metric, macro>>

\* line 61
MicroMetrics ==
    /\ pc = "micro_metrics"
    /\ micro' = micro_metrics(tp, fp, tn, fn, num_classes)
    /\ pc' = "macro_metrics"
    /\ UNCHANGED <<labels, classes, num_classes, cm, ln, tp, fp, fn, tn, metric, macro>>

\* line 62
MacroMetrics ==
    /\ pc = "macro_metrics"
    /\ metric' = class_metrics(tp, fp, tn, fn, num_classes)
    /\ macro' = macro_metrics(tp, fp, tn, fn, num_classes)
    /\ pc' = "done"
    /\ UNCHANGED <<labels, classes, num_classes, cm, ln, tp, fp, fn, tn, micro>>

Next == ConfusionMatrix \/ Counts \/ MicroMetrics \/ MacroMetrics

Spec == Init /\ [][Next]_vars

(***************************************************************************)
(* add_summary as a function of its arguments, lines 53-62.                *)
(***************************************************************************)
add_summary(l, c, n) ==
    LET m == confusion_matrix(l, c, n)
        total == ln_of(m, n)
        t == diag_part(m, n)
        p == fp_of(m, t, n)
        f == fn_of(m, t, n)
        tneg == tn_of(total, t, p, f, n)
    IN  [micro |-> micro_metrics(t, p, tneg, f, n),
         metric |-> class_metrics(t, p, tneg, f, n),
         macro |-> macro_metrics(t, p, tneg, f, n)]

(***************************************************************************)
(* Vocabulary of the properties.                                           *)
(***************************************************************************)
Done == pc = "done"

Derived == pc \in {"micro_metrics", "macro_metrics", "done"}

NonEmpty == Len(labels) > 0

Names == {"accuracy", "precision", "recall", "f_measure"}

\* every scalar the call has emitted, in a state where it is done
Emitted ==
    {micro[k] : k \in Names} \cup {macro[k] : k \in Names}
        \cup {metric[i][k] : i \in Classes(num_classes), k \in Names}

Aggregates == {micro[k] : k \in Names} \cup {macro[k] : k \in Names}

InUnit(x) == RLeq(RInt(0), x) /\ RLeq(x, RInt(1))

\* the deviation granted to the eps terms: 2 * eps
Tol == RAdd(eps, eps)

Near(x, y) == RLeq(x, RAdd(y, Tol)) /\ RLeq(y, RAdd(x, Tol))

\* the number of examples of the batch with true label i / predicted as i
Support(l, i) == Cardinality({k \in 1..Len(l) : l[k] = i})

Correct(i) == Cardinality({k \in 1..Len(labels) : labels[k] = i /\ classes[k] = i})

Perfect == NonEmpty /\ labels = classes

Imbalanced(l, n) == \E i, j \in Classes(n) : Support(l, i) # Support(l, j)

\* class num_classes - 1 is an extra class: no example, no prediction
ExtraClass ==
    /\ num_classes >= 2
    /\ Support(labels, num_classes - 1) = 0
    /\ Support(classes, num_classes - 1) = 0

(***************************************************************************)
(* Properties.                                                             *)
(***************************************************************************)

\* C9: for every class i the counts tp[i], fp[i], fn[i], tn[i] derived in
\* add_summary are non-negative and sum to the number of examples.
C9_CountsPartitionBatch ==
    Derived =>
        \A i \in Classes(num_classes) :
            /\ tp[i] >= 0 /\ fp[i] >= 0 /\ fn[i] >= 0 /\ tn[i] >= 0
            /\ tp[i] + fp[i] + fn[i] + tn[i] = Len(labels)

C9_Witness ==
    /\ Done
    /\ num_classes = 3
    /\ \E i \in Classes(num_classes) : tn[i] = 0 /\ fp[i] > 0 /\ fn[i] > 0 /\ tp[i] > 0

\* C10: the sum of fp over the classes equals the sum of fn (both are the
\* number of examples minus the sum of tp), and the micro precision and the
\* micro recall emitted are equal.
C10_MicroPrecisionEqualsRecall ==
    /\ Derived =>
          /\ reduce_sum(fp, num_classes) = reduce_sum(fn, num_classes)
          /\ reduce_sum(fp, num_classes) = Len(labels) - reduce_sum(tp, num_classes)
    /\ Done => REq(micro.precision, micro.recall)

C10_Witness ==
    /\ Done
    /\ reduce_sum(fp, num_classes) > 0
    /\ reduce_sum(tp, num_classes) > 0
    /\ \E i \in Classes(num_classes) : fp[i] # fn[i]

\* C5: with cm[true class][predicted class], fp[i] counts the examples
\* predicted i whose true label is not i and fn[i] those of true label i
\* predicted otherwise; the precision of class i is the fraction of the
\* examples predicted i that are of label i, its recall the fraction of the
\* examples of label i that are predicted i (the eps term in the denominator).
C5_PrecisionFollowsPredictions ==
    Done =>
        \A i \in Classes(num_classes) :
            /\ fp[i] = Support(classes, i) - Correct(i)
            /\ fn[i] = Support(labels, i) - Correct(i)
            /\ REq(metric[i].precision,
                   RDiv(RInt(Correct(i)), RAdd(RInt(Support(classes, i)), eps)))
            /\ REq(metric[i].recall,
                   RDiv(RInt(Correct(i)), RAdd(RInt(Support(labels, i)), eps)))

\* C4: true = [0,0,1,1], predicted = [0,1,1,1], num_classes = 2 gives the
\* matrix [[1,1],[0,2]], class 0 TP=1 FP=0 FN=1 TN=2, class 1 TP=2 FP=1 FN=0
\* TN=1, micro accuracy 3/4 and macro precision mean(1/1, 2/3) = 5/6.
C4_Example ==
    (Done /\ num_classes = 2 /\ labels = <<0, 0, 1, 1>> /\ classes = <<0, 1, 1, 1>>) =>
        /\ cm[0][0] = 1 /\ cm[0][1] = 1 /\ cm[1][0] = 0 /\ cm[1][1] = 2
        /\ tp[0] = 1 /\ fp[0] = 0 /\ fn[0] = 1 /\ tn[0] = 2
        /\ tp[1] = 2 /\ fp[1] = 1 /\ fn[1] = 0 /\ tn[1] = 1
        /\ REq(micro.accuracy, RDiv(RInt(3), RInt(4)))
        /\ Near(macro.precision, RDiv(RInt(5), RInt(6)))

\* what the call does emit for the batch of C4: the matrix, tp, tn and the
\* micro accuracy of the example, with fp and fn exchanged and the macro
\* precision 3/4 (5/6 is the macro recall)
C4_Observed ==
    (Done /\ num_classes = 2 /\ labels = <<0, 0, 1, 1>> /\ classes = <<0, 1, 1, 1>>) =>
        /\ cm[0][0] = 1 /\ cm[0][1] = 1 /\ cm[1][0] = 0 /\ cm[1][1] = 2
        /\ tp[0] = 1 /\ fp[0] = 1 /\ fn[0] = 0 /\ tn[0] = 2
        /\ tp[1] = 2 /\ fp[1] = 0 /\ fn[1] = 1 /\ tn[1] = 1
        /\ REq(micro.accuracy, RDiv(RInt(3), RInt(4)))
        /\ Near(macro.precision, RDiv(RInt(3), RInt(4)))
        /\ Near(macro.recall, RDiv(RInt(5), RInt(6)))

\* C3: no division of micro_metrics or macro_metrics has a zero
\* denominator, the empty batch and num_classes = 1 included: every emitted
\* value is a number.
C3_NoZeroDenominator ==
    Done =>
        /\ reduce_sum(tp, num_classes) + reduce_sum(fp, num_classes)
              + reduce_sum(tn, num_classes) + reduce_sum(fn, num_classes) # 0
        /\ \A i \in Classes(num_classes) : tp[i] + fp[i] + tn[i] + fn[i] # 0
        /\ \A x \in Emitted : IsNum(x)

\* off the empty batch every denominator is non-zero and every value a number
C3_NonEmptyBatch ==
    (Done /\ NonEmpty) =>
        /\ reduce_sum(tp, num_classes) + reduce_sum(fp, num_classes)
              + reduce_sum(tn, num_classes) + reduce_sum(fn, num_classes) # 0
        /\ \A i \in Classes(num_classes) : tp[i] + fp[i] + tn[i] + fn[i] # 0
        /\ \A x \in Emitted : IsNum(x)

\* on the empty batch the eps-guarded values are numbers and the six
\* accuracies are 0/0
C3_EmptyBatch ==
    (Done /\ ~NonEmpty) =>
        /\ \A k \in Names \ {"accuracy"} :
              /\ IsNum(micro[k]) /\ IsNum(macro[k])
              /\ \A i \in Classes(num_classes) : IsNum(metric[i][k])
        /\ ~IsNum(micro.accuracy) /\ ~IsNum(macro.accuracy)
        /\ \A i \in Classes(num_classes) : ~IsNum(metric[i].accuracy)

\* C1: every value add_summary emits (the micro and macro aggregates and the
\* four values of every class) lies in [0,1].
C1_AllInUnitInterval == Done => \A x \in Emitted : InUnit(x)

\* off the empty batch every emitted value lies in [0,1]
C1_NonEmptyBatch == (Done /\ NonEmpty) => \A x \in Emitted : InUnit(x)

\* C2 as stated: when the predictions equal the labels on a non-empty batch,
\* all eight aggregates are 1 up to the eps terms.
C2_PerfectGivesOnes == (Done /\ Perfect) => \A x \in Aggregates : Near(x, RInt(1))

\* the classes that have an example
Present == {i \in Classes(num_classes) : Support(labels, i) > 0}

\* C2 as amended: when the predictions equal the labels on a non-empty batch,
\* the four micro values and the macro accuracy are 1 up to the eps terms,
\* and the macro precision, recall and F-measure are the fraction of the
\* classes that have an example: 1 when every class has one.
C2_PerfectGivesPresentFraction ==
    (Done /\ Perfect) =>
        LET share == RDiv(RInt(Cardinality(Present)), RInt(num_classes))
        IN  /\ \A k \in Names : Near(micro[k], RInt(1))
            /\ Near(macro.accuracy, RInt(1))
            /\ \A k \in Names \ {"accuracy"} : Near(macro[k], share)
            /\ Present = Classes(num_classes) => \A x \in Aggregates : Near(x, RInt(1))

C2_Witness ==
    /\ Done /\ Perfect
    /\ num_classes = 3
    /\ Present = Classes(num_classes)
    /\ Imbalanced(labels, num_classes)

\* the micro scalars of the same batch with the extra class left out
WithoutExtra == add_summary(labels, classes, num_classes - 1).micro

\* C6 as stated: with one extra class that has no example and no prediction
\* the four micro values are those of the call without the extra class.
C6_ExtraClassKeepsMicro ==
    (Done /\ NonEmpty /\ ExtraClass) =>
        /\ REq(micro.accuracy, WithoutExtra.accuracy)
        /\ REq(micro.precision, WithoutExtra.precision)
        /\ REq(micro.recall, WithoutExtra.recall)
        /\ REq(micro.f_measure, WithoutExtra.f_measure)

\* C6 as amended: the extra class leaves the micro precision, recall and
\* F-measure as they are; the micro accuracy is left as it is exactly when
\* every prediction is correct, and is larger otherwise.
C6_ExtraClassKeepsMicroButAccuracy ==
    (Done /\ NonEmpty /\ ExtraClass) =>
        /\ REq(micro.precision, WithoutExtra.precision)
        /\ REq(micro.recall, WithoutExtra.recall)
        /\ REq(micro.f_measure, WithoutExtra.f_measure)
        /\ RLeq(WithoutExtra.accuracy, micro.accuracy)
        /\ REq(micro.accuracy, WithoutExtra.accuracy) <=> (labels = classes)

C6_Witness ==
    /\ Done /\ NonEmpty /\ ExtraClass
    /\ num_classes = 3
    /\ labels # classes
    /\ reduce_sum(tp, num_classes) > 0

\* C7 as stated: the micro accuracy is (sum of TP + sum of TN) over the
\* number of examples.
C7_MicroAccuracyOverTotal ==
    (Done /\ NonEmpty) =>
        REq(micro.accuracy,
            RDiv(RInt(reduce_sum(tp, num_classes) + reduce_sum(tn, num_classes)),
                 RInt(Len(labels))))

\* C7 as amended: the micro accuracy is (sum of TP + sum of TN) over
\* num_classes times the number of examples.
C7_MicroAccuracyOverClassesTimesTotal ==
    (Done /\ NonEmpty) =>
        REq(micro.accuracy,
            RDiv(RInt(reduce_sum(tp, num_classes) + reduce_sum(tn, num_classes)),
                 RInt(num_classes * Len(labels))))

C7_Witness ==
    /\ Done
    /\ num_classes = 3
    /\ Len(labels) = MaxLen
    /\ labels # classes
    /\ reduce_sum(tp, num_classes) > 0

\* the batches of the model
Batches(n) ==
    {b \in UNION {[1..len -> Classes(n)] \X [1..len -> Classes(n)] : len \in 1..MaxLen} :
        Ordered(b[1], b[2], n)}

====
